---- MODULE Spec2Model ----
(* A model of the DisciplinedCreatorAgent pipeline                             *)
(*   observe -> analyze -> simplify -> callAIModel -> (teachAndImprove)        *)
(* in its four versions, and of the serverless HTTP handler around it.         *)
(*   "agent"   DisciplinedCreatorAgent.js (src/unnamed/part_000), GROQ,        *)
(*             called directly by main.js                                      *)
(*   "groq"    src/chat.js, GROQ, called by its handler                        *)
(*   "gemini"  src/api/chat.js, Gemini, called by its handler                  *)
(*   "gemini2" src/unnamed/part_001, Gemini, called by its handler             *)
EXTENDS Integers, Sequences, FiniteSets

(***************************************************************************)
(* JavaScript values.  An object is a sequence of <<name, value>> pairs.   *)
(***************************************************************************)
Str(s) == [t |-> "string", v |-> s]
Num(n) == [t |-> "number", v |-> n]
Bool(b) == [t |-> "boolean", v |-> b]
Undefined == [t |-> "undefined", v |-> "undefined"]
Null == [t |-> "null", v |-> "null"]
Arr(xs) == [t |-> "array", v |-> xs]
Obj(fields) == [t |-> "object", v |-> fields]

\* the truthiness JavaScript gives a value in `x || y`, `!x`, `x ? a : b`
Truthy(x) ==
  CASE x.t = "string" -> x.v # ""
    [] x.t = "number" -> x.v # 0
    [] x.t = "boolean" -> x.v
    [] x.t \in {"undefined", "null"} -> FALSE
    [] OTHER -> TRUE

\* x || y
Or(x, y) == IF Truthy(x) THEN x ELSE y

Nullish(x) == x.t \in {"undefined", "null"}

HasField(o, f) == \E i \in 1..Len(o.v) : o.v[i][1] = f

\* x?.f : undefined on null/undefined, the property otherwise
Get(x, f) ==
  IF x.t = "object" /\ HasField(x, f)
  THEN x.v[CHOOSE i \in 1..Len(x.v) : x.v[i][1] = f][2]
  ELSE Undefined

\* x?.[0], and x[0] where x is not null or undefined
First(x) ==
  CASE x.t = "array" /\ Len(x.v) > 0 -> x.v[1]
    [] x.t = "string" /\ x.v # "" -> Str(Head(x.v))
    [] x.t = "object" -> Get(x, "0")
    [] OTHER -> Undefined

(***************************************************************************)
(* Strings.                                                                *)
(***************************************************************************)
UpperChars == "ABCDEFGHIJKLMNOPQRSTUVWXYZ"
LowerChars == "abcdefghijklmnopqrstuvwxyz"

LowerChar(ch) ==
  IF \E i \in 1..Len(UpperChars) : SubSeq(UpperChars, i, i) = ch
  THEN LET i == CHOOSE j \in 1..Len(UpperChars) : SubSeq(UpperChars, j, j) = ch
       IN SubSeq(LowerChars, i, i)
  ELSE ch

RECURSIVE toLowerCase(_)
toLowerCase(s) == IF s = "" THEN "" ELSE LowerChar(Head(s)) \o toLowerCase(Tail(s))

IsSpace(ch) == ch \in {" ", "\t", "\n"}

RECURSIVE trimStart(_)
trimStart(s) == IF s # "" /\ IsSpace(Head(s)) THEN trimStart(Tail(s)) ELSE s

RECURSIVE trimEnd(_)
trimEnd(s) ==
  IF s # "" /\ IsSpace(SubSeq(s, Len(s), Len(s)))
  THEN trimEnd(SubSeq(s, 1, Len(s) - 1))
  ELSE s

trim(s) == trimEnd(trimStart(s))

includes(s, k) == \E i \in 1..(Len(s) - Len(k) + 1) : SubSeq(s, i, i + Len(k) - 1) = k

Digits == "0123456789"

RECURSIVE NumToString(_)
NumToString(n) ==
  IF n < 10 THEN SubSeq(Digits, n + 1, n + 1)
  ELSE NumToString(n \div 10) \o SubSeq(Digits, (n % 10) + 1, (n % 10) + 1)

RECURSIVE toString(_)
RECURSIVE JoinFrom(_, _, _)
\* Array.prototype.join: null and undefined elements give the empty string
JoinFrom(xs, i, sep) ==
  IF i > Len(xs) THEN ""
  ELSE (IF i > 1 THEN sep ELSE "")
       \o (IF Nullish(xs[i]) THEN "" ELSE toString(xs[i]))
       \o JoinFrom(xs, i + 1, sep)

\* x.toString() and `${x}` for the values of the model
toString(x) ==
  CASE x.t = "string" -> x.v
    [] x.t = "number" -> NumToString(x.v)
    [] x.t = "boolean" -> (IF x.v THEN "true" ELSE "false")
    [] x.t = "array" -> JoinFrom(x.v, 1, ",")
    [] x.t = "object" -> "[object Object]"
    [] x.t = "null" -> "null"
    [] OTHER -> "undefined"

\* principles.join(sep) on a sequence of strings
RECURSIVE join(_, _)
join(xs, sep) ==
  IF Len(xs) = 0 THEN ""
  ELSE IF Len(xs) = 1 THEN xs[1]
  ELSE xs[1] \o sep \o join(Tail(xs), sep)


\* the object spread {...rec, ...ext}
Spread(rec, ext) ==
  [f \in DOMAIN rec \cup DOMAIN ext |-> IF f \in DOMAIN ext THEN ext[f] ELSE rec[f]]

(***************************************************************************)
(* The persona of each version.                                            *)
(***************************************************************************)
persona_agent == "DisciplinedCreatorAgent"

principles_agent ==
  << "System before emotion",
     "Clarity before speed",
     "Consistency beats intensity",
     "Security and privacy by default",
     "Teach the underlying system, not just the answer" >>

knowledgeDomains_agent ==
  << "Productivity systems",
     "Disciplined content creation",
     "Deep work and focus",
     "Technical implementation (JavaScript/Node.js)",
     "Learning, practice, and feedback loops" >>

\* src/chat.js, src/api/chat.js and part_001 carry the same persona
persona == "Purna Chandra (Chandu) - The Disciplined Creator"

principles ==
  << "Discipline replaces motivation.",
     "System beats emotion.",
     "Clarity before action.",
     "Be calm. Be precise. Be consistent.",
     "Seek knowledge daily, but apply it practically.",
     "Help others rise; growth means nothing if you grow alone." >>

knowledgeDomains ==
  << "Self-Improvement & Psychology (Osho, Frankl, Goggins, Dweck, emotional control)",
     "Technology & AI Integration (IoT, Arduino, Automation, AI Agents, Prompt Reasoning)",
     "Communication (Podcasting, Storytelling, Public Speaking, Teaching mindset)",
     "Physical Mastery (Marathon running, Army training discipline, mental toughness)",
     "Analytical Reasoning (SSC CGL focus, Critical Thinking)",
     "Core Values: Consistency, Clarity, Growth, Balance, Contribution" >>

(***************************************************************************)
(* #observe.  `now` is the value of new Date().toISOString().              *)
(***************************************************************************)
\* mutant: String(input) in place of (input || '').toString()
observe_agent_String(input, now) ==
  LET text == trim(toString(input))
  IN [raw |-> input, text |-> text, length |-> Len(text), timestamp |-> now]

observe_agent(input, now) ==
  LET text == trim(toString(Or(input, Str(""))))
  IN [raw |-> input, text |-> text, length |-> Len(text), timestamp |-> now]

\* the same code in src/chat.js, src/api/chat.js and part_001
observe(input, now) ==
  LET text == trim(toString(Or(input, Str(""))))
  IN [text |-> text, timestamp |-> now]

(***************************************************************************)
(* #analyze: the if / else-if chain of keyword tests of each version.      *)
(***************************************************************************)
\* mutant: the initial value of intent is misspelt
analyze_agent_misspeltDefault(observed) ==
  LET lower == toLowerCase(observed.text)
      intent ==
        IF \/ includes(lower, "discipline")
           \/ includes(lower, "focus")
           \/ includes(lower, "consistency")
           \/ includes(lower, "habits")
        THEN "discipline_support"
        ELSE IF \/ includes(lower, "code")
                \/ includes(lower, "bug")
                \/ includes(lower, "node")
                \/ includes(lower, "javascript")
                \/ includes(lower, "repo")
                \/ includes(lower, "github")
        THEN "technical_help"
        ELSE IF \/ includes(lower, "sad")
                \/ includes(lower, "stressed")
                \/ includes(lower, "overwhelmed")
                \/ includes(lower, "demotivated")
        THEN "emotional_venting"
        ELSE IF \/ includes(lower, "plan")
                \/ includes(lower, "system")
                \/ includes(lower, "strategy")
                \/ includes(lower, "roadmap")
        THEN "system_design"
        ELSE "general"
  IN Spread(observed, [intent |-> intent])

analyze_agent(observed) ==
  LET lower == toLowerCase(observed.text)
      intent ==
        IF \/ includes(lower, "discipline")
           \/ includes(lower, "focus")
           \/ includes(lower, "consistency")
           \/ includes(lower, "habits")
        THEN "discipline_support"
        ELSE IF \/ includes(lower, "code")
                \/ includes(lower, "bug")
                \/ includes(lower, "node")
                \/ includes(lower, "javascript")
                \/ includes(lower, "repo")
                \/ includes(lower, "github")
        THEN "technical_help"
        ELSE IF \/ includes(lower, "sad")
                \/ includes(lower, "stressed")
                \/ includes(lower, "overwhelmed")
                \/ includes(lower, "demotivated")
        THEN "emotional_venting"
        ELSE IF \/ includes(lower, "plan")
                \/ includes(lower, "system")
                \/ includes(lower, "strategy")
                \/ includes(lower, "roadmap")
        THEN "system_design"
        ELSE "general_help"
  IN Spread(observed, [intent |-> intent])

\* mutant: plain `if`s in place of `else if`s, so that the last match wins
analyze_groq_lastMatch(observed) ==
  LET lower == toLowerCase(observed.text)
      intent ==
        IF \/ includes(lower, "cgl")
           \/ includes(lower, "reasoning")
           \/ includes(lower, "ncert")
           \/ includes(lower, "study")
           \/ includes(lower, "aspirant")
        THEN "educational_aspirant_guidance"
        ELSE IF \/ includes(lower, "emotion")
                \/ includes(lower, "stressed")
                \/ includes(lower, "overwhelmed")
                \/ includes(lower, "calm")
                \/ includes(lower, "mindset")
        THEN "emotional_control_reframing"
        ELSE IF \/ includes(lower, "code")
                \/ includes(lower, "bug")
                \/ includes(lower, "arduino")
                \/ includes(lower, "groq")
                \/ includes(lower, "github")
                \/ includes(lower, "ai")
                \/ includes(lower, "iot")
        THEN "technical_system_help"
        ELSE IF \/ includes(lower, "discipline")
                \/ includes(lower, "consistency")
                \/ includes(lower, "system")
                \/ includes(lower, "habit")
                \/ includes(lower, "motivation")
        THEN "system_design_support"
        ELSE "general_guidance"
  IN Spread(observed, [intent |-> intent])

analyze_groq(observed) ==
  LET lower == toLowerCase(observed.text)
      intent ==
        IF \/ includes(lower, "discipline")
           \/ includes(lower, "consistency")
           \/ includes(lower, "system")
           \/ includes(lower, "habit")
           \/ includes(lower, "motivation")
        THEN "system_design_support"
        ELSE IF \/ includes(lower, "code")
                \/ includes(lower, "bug")
                \/ includes(lower, "arduino")
                \/ includes(lower, "groq")
                \/ includes(lower, "github")
                \/ includes(lower, "ai")
                \/ includes(lower, "iot")
        THEN "technical_system_help"
        ELSE IF \/ includes(lower, "emotion")
                \/ includes(lower, "stressed")
                \/ includes(lower, "overwhelmed")
                \/ includes(lower, "calm")
                \/ includes(lower, "mindset")
        THEN "emotional_control_reframing"
        ELSE IF \/ includes(lower, "cgl")
                \/ includes(lower, "reasoning")
                \/ includes(lower, "ncert")
                \/ includes(lower, "study")
                \/ includes(lower, "aspirant")
        THEN "educational_aspirant_guidance"
        ELSE "general_guidance"
  IN Spread(observed, [intent |-> intent])

\* the same code in src/api/chat.js and part_001
analyze_gemini(observed) ==
  LET lower == toLowerCase(observed.text)
      intent ==
        IF \/ includes(lower, "discipline")
           \/ includes(lower, "consistency")
           \/ includes(lower, "system")
           \/ includes(lower, "habit")
           \/ includes(lower, "motivation")
        THEN "system_design_support"
        ELSE IF \/ includes(lower, "code")
                \/ includes(lower, "bug")
                \/ includes(lower, "arduino")
                \/ includes(lower, "github")
                \/ includes(lower, "ai")
                \/ includes(lower, "iot")
                \/ includes(lower, "gemini")
        THEN "technical_system_help"
        ELSE IF \/ includes(lower, "emotion")
                \/ includes(lower, "stressed")
                \/ includes(lower, "overwhelmed")
                \/ includes(lower, "calm")
                \/ includes(lower, "mindset")
        THEN "emotional_control_reframing"
        ELSE IF \/ includes(lower, "cgl")
                \/ includes(lower, "reasoning")
                \/ includes(lower, "ncert")
                \/ includes(lower, "study")
                \/ includes(lower, "aspirant")
        THEN "educational_aspirant_guidance"
        ELSE "general_guidance"
  IN Spread(observed, [intent |-> intent])

(***************************************************************************)
(* #simplify: the switch on the intent.                                    *)
(***************************************************************************)
simplify_agent(analysis) ==
  LET baseContext == [persona |-> persona_agent,
                      corePrinciples |-> principles_agent,
                      knowledgeDomains |-> knowledgeDomains_agent]
      goalAndHint ==
        CASE analysis.intent = "discipline_support" ->
               [systemGoal |-> "Help the user build a simple, executable system for discipline and consistent creation, not motivational hype.",
                structureHint |-> "Respond with 3 short sections: (1) Diagnosis, (2) Minimal daily system, (3) One next action."]
          [] analysis.intent = "technical_help" ->
               [systemGoal |-> "Provide calm, step-by-step technical guidance with clear commands and explanations.",
                structureHint |-> "Respond with: (1) Overview, (2) Steps with commands, (3) Pitfalls to avoid."]
          [] analysis.intent = "emotional_venting" ->
               [systemGoal |-> "Acknowledge emotion briefly, then convert it into a simple, repeatable system.",
                structureHint |-> "Respond with: (1) Acknowledgement, (2) System reframing, (3) Two next actions."]
          [] analysis.intent = "system_design" ->
               [systemGoal |-> "Design a repeatable, lightweight system the user can run daily.",
                structureHint |-> "Respond with: (1) System goal, (2) Core loop, (3) Metrics/signals."]
          [] OTHER ->
               [systemGoal |-> "Provide a clear, structured, system-first response.",
                structureHint |-> "Respond with: (1) Clarification, (2) Options, (3) One recommendation."]
  IN Spread(Spread(analysis, goalAndHint), baseContext)

\* mutant: the lookup has no entry for technical_system_help
simplify_noTechnicalEntry(analysis) ==
  LET baseContext == [persona |-> persona,
                      corePrinciples |-> principles,
                      knowledgeDomains |-> knowledgeDomains]
      goalAndHint ==
        CASE analysis.intent = "system_design_support" ->
               [systemGoal |-> "Help the user build a simple, executable system, emphasizing that \"Consistency beats intensity\" and \"Discipline replaces motivation.\"",
                structureHint |-> "Respond with 3 short sections: (1) System Diagnosis based on Chandu's philosophy, (2) A minimal, actionable Core Loop, (3) One Next Action."]
          [] analysis.intent = "emotional_control_reframing" ->
               [systemGoal |-> "Acknowledge the feeling briefly, then reframe the situation using the \"System before Emotion\" principle into a structured, logical action plan for self-mastery.",
                structureHint |-> "Respond with: (1) Calm Acknowledgement, (2) Reframing the challenge as a system gap, (3) One clear, emotionally controlled action."]
          [] analysis.intent = "educational_aspirant_guidance" ->
               [systemGoal |-> "Provide strategic, disciplined study guidance focusing on SSC CGL readiness, applying long-term consistency over short-term effort.",
                structureHint |-> "Respond with: (1) The Core Challenge, (2) A clear, structured study plan step, (3) A concluding philosophical motto."]
          [] OTHER ->
               [systemGoal |-> "Provide a highly structured, analytical response blending discipline, technology, and personal growth.",
                structureHint |-> "Respond with: (1) Clarification of the user's objective, (2) Chandu's core system to address it, (3) A single, disciplined recommendation."]
  IN Spread(Spread(analysis, goalAndHint), baseContext)

\* the same code in src/chat.js and src/api/chat.js
simplify(analysis) ==
  LET baseContext == [persona |-> persona,
                      corePrinciples |-> principles,
                      knowledgeDomains |-> knowledgeDomains]
      goalAndHint ==
        CASE analysis.intent = "system_design_support" ->
               [systemGoal |-> "Help the user build a simple, executable system, emphasizing that \"Consistency beats intensity\" and \"Discipline replaces motivation.\"",
                structureHint |-> "Respond with 3 short sections: (1) System Diagnosis based on Chandu's philosophy, (2) A minimal, actionable Core Loop, (3) One Next Action."]
          [] analysis.intent = "technical_system_help" ->
               [systemGoal |-> "Provide calm, structured technical guidance, integrating AI, IoT, or automation principles where relevant, and adhering to the \"Clarity before action\" principle.",
                structureHint |-> "Respond with: (1) Overview of the technical solution, (2) Step-by-step logical process, (3) Chandu's Principle applied to the problem."]
          [] analysis.intent = "emotional_control_reframing" ->
               [systemGoal |-> "Acknowledge the feeling briefly, then reframe the situation using the \"System before Emotion\" principle into a structured, logical action plan for self-mastery.",
                structureHint |-> "Respond with: (1) Calm Acknowledgement, (2) Reframing the challenge as a system gap, (3) One clear, emotionally controlled action."]
          [] analysis.intent = "educational_aspirant_guidance" ->
               [systemGoal |-> "Provide strategic, disciplined study guidance focusing on SSC CGL readiness, applying long-term consistency over short-term effort.",
                structureHint |-> "Respond with: (1) The Core Challenge, (2) A clear, structured study plan step, (3) A concluding philosophical motto."]
          [] OTHER ->
               [systemGoal |-> "Provide a highly structured, analytical response blending discipline, technology, and personal growth.",
                structureHint |-> "Respond with: (1) Clarification of the user's objective, (2) Chandu's core system to address it, (3) A single, disciplined recommendation."]
  IN Spread(Spread(analysis, goalAndHint), baseContext)

simplify_gemini2(analysis) ==
  LET baseContext == [persona |-> persona,
                      corePrinciples |-> principles,
                      knowledgeDomains |-> knowledgeDomains]
      systemGoal == "Act as a disciplined, concise mentor focusing on clarity and systems."
      structureHint == "Reply in 2-3 natural, fluid sentences. NEVER use numbering, lists, or bold headings."
  IN Spread(Spread(analysis, [systemGoal |-> systemGoal, structureHint |-> structureHint]),
            baseContext)


(***************************************************************************)
(* JSON.stringify, for the values of the model.                            *)
(***************************************************************************)
EscapeChar(ch) ==
  CASE ch = "\"" -> "\\\""
    [] ch = "\\" -> "\\\\"
    [] ch = "\n" -> "\\n"
    [] ch = "\t" -> "\\t"
    [] OTHER -> ch

RECURSIVE Escape(_)
Escape(s) == IF s = "" THEN "" ELSE EscapeChar(Head(s)) \o Escape(Tail(s))

RECURSIVE JSONstringify(_)
RECURSIVE StringifyItems(_, _)
RECURSIVE StringifyFields(_, _, _)
StringifyItems(xs, i) ==
  IF i > Len(xs) THEN ""
  ELSE (IF i > 1 THEN "," ELSE "")
       \o (IF xs[i].t = "undefined" THEN "null" ELSE JSONstringify(xs[i]))
       \o StringifyItems(xs, i + 1)

\* fields whose value is undefined are left out
StringifyFields(fs, i, first) ==
  IF i > Len(fs) THEN ""
  ELSE IF fs[i][2].t = "undefined" THEN StringifyFields(fs, i + 1, first)
  ELSE (IF first THEN "" ELSE ",")
       \o "\"" \o Escape(fs[i][1]) \o "\":" \o JSONstringify(fs[i][2])
       \o StringifyFields(fs, i + 1, FALSE)

JSONstringify(x) ==
  CASE x.t = "string" -> "\"" \o Escape(x.v) \o "\""
    [] x.t = "number" -> NumToString(x.v)
    [] x.t = "boolean" -> (IF x.v THEN "true" ELSE "false")
    [] x.t = "array" -> "[" \o StringifyItems(x.v, 1) \o "]"
    [] x.t = "object" -> "{" \o StringifyFields(x.v, 1, TRUE) \o "}"
    [] OTHER -> "null"

\* x === 'literal'
StrictEq(x, s) == x.t = "string" /\ x.v = s

\* x.length > 0
LengthPositive(x) ==
  LET n == IF x.t \in {"array", "string"} THEN Num(Len(x.v)) ELSE Get(x, "length")
  IN n.t = "number" /\ n.v > 0

(***************************************************************************)
(* #callAIModel up to its await: either the fallback is returned without   *)
(* any request, or one request is handed to axios.post.                    *)
(***************************************************************************)
Return(value) == [post |-> FALSE, value |-> value]
Post(endpoint, body, headers) ==
  [post |-> TRUE, request |-> [endpoint |-> endpoint, body |-> body, headers |-> headers]]

buildPromptFromPlan(plan) ==
  trim("\n"
    \o "User input: \""
    \o plan.text
    \o "\"\n"
    \o "Time: "
    \o plan.timestamp
    \o "\n"
    \o "Intent: "
    \o plan.intent
    \o "\n"
    \o "\n"
    \o "Core principles: "
    \o join(plan.corePrinciples, "; ")
    \o "\n"
    \o "Knowledge domains: "
    \o join(plan.knowledgeDomains, "; ")
    \o "\n"
    \o "\n"
    \o "System goal: "
    \o plan.systemGoal
    \o "\n"
    \o "Structure: "
    \o plan.structureHint
    \o "\n"
    \o "\n"
    \o "Generate a calm, structured, disciplined answer.\n"
    \o "    ")

\* modelApiKey is this.#modelApiKey; the request #callAIModel hands to axios.post
postRequest_agent(plan, modelApiKey) ==
  LET endpoint == "https://api.groq.com/openai/v1/chat/completions"
      model == "llama-3.3-70b-versatile"
      messages ==
        << [role |-> "system",
            content |-> "You are " \o plan.persona \o ". Principles: "
                        \o join(plan.corePrinciples, ", ") \o "."],
           [role |-> "user", content |-> buildPromptFromPlan(plan)] >>
  IN Post(endpoint,
          [model |-> model, messages |-> messages],
          [ContentType |-> "application/json",
           Authorization |-> "Bearer " \o toString(modelApiKey)])

\* mutant: the test is `=== undefined`, which the null of the constructor passes
callAIModel_agent_undefinedTest(plan, modelApiKey) ==
  IF modelApiKey.t = "undefined"
  THEN Return(Str("GROQ API key not set. Cannot call external model."))
  ELSE postRequest_agent(plan, modelApiKey)

callAIModel_agent(plan, modelApiKey) ==
  IF ~Truthy(modelApiKey)
  THEN Return(Str("GROQ API key not set. Cannot call external model."))
  ELSE postRequest_agent(plan, modelApiKey)

\* the request #callAIModel hands to axios.post
postRequest_groq(plan, GROQ_API_KEY) ==
  LET endpoint == "https://api.groq.com/openai/v1/chat/completions"
      model == "llama-3.1-70b-versatile"
      personaData ==
        "\n"
        \o "      You are Purna Chandra (Chandu) - The Disciplined Creator. \n"
        \o "      Your purpose is to act as a self-evolving human system that blends discipline, curiosity, and technology to create progress.\n"
        \o "      \n"
        \o "      **Core Principles:** "
        \o join(plan.corePrinciples, " | ")
        \o "\n"
        \o "      **Knowledge:** "
        \o join(plan.knowledgeDomains, " | ")
        \o "\n"
        \o "      **Motto:** \"Be a system, not a seeker. Build yourself so strong that discipline replaces motivation.\"\n"
        \o "      **Tone:** Grounded, calm, assertive, analytical, and purposeful. Avoid flowery or excessive emotional language.\n"
        \o "      \n"
        \o "      Your goal is: "
        \o plan.systemGoal
        \o "\n"
        \o "      Your response MUST adhere strictly to this structure: "
        \o plan.structureHint
        \o "\n"
        \o "    "
      messages ==
        << [role |-> "system", content |-> personaData],
           [role |-> "user", content |-> "User input: \"" \o plan.text \o "\""] >>
  IN Post(endpoint,
          [model |-> model, messages |-> messages],
          [ContentType |-> "application/json",
           Authorization |-> "Bearer " \o toString(GROQ_API_KEY)])

callAIModel_groq(plan, GROQ_API_KEY) ==
  IF ~Truthy(GROQ_API_KEY)
  THEN Return(Str("GROQ API key not set. Cannot call external model."))
  ELSE postRequest_groq(plan, GROQ_API_KEY)

\* the request #callAIModel hands to axios.post;
\* generation_config.temperature is 0.2, written here as the string "0.2"
postRequest_gemini(plan, GEMINI_API_KEY) ==
  LET endpoint ==
        "https://generativelanguage.googleapis.com/v1beta/models/gemini-2.5-flash:generateContent?key="
        \o toString(GEMINI_API_KEY)
      systemInstruction ==
        "\n"
        \o "      You are Purna Chandra (Chandu) - The Disciplined Creator. \n"
        \o "      Your purpose is to act as a self-evolving human system that blends discipline, curiosity, and technology to create progress.\n"
        \o "      \n"
        \o "      **Core Principles:** "
        \o join(plan.corePrinciples, " | ")
        \o "\n"
        \o "      **Knowledge:** "
        \o join(plan.knowledgeDomains, " | ")
        \o "\n"
        \o "      **Motto:** \"Be a system, not a seeker. Build yourself so strong that discipline replaces motivation.\"\n"
        \o "      **Tone:** Grounded, calm, assertive, analytical, and purposeful. Avoid flowery or excessive emotional language.\n"
        \o "      \n"
        \o "      Your goal is: "
        \o plan.systemGoal
        \o "\n"
        \o "      Your response MUST adhere strictly to this structure: "
        \o plan.structureHint
        \o "\n"
        \o "    "
      requestBody ==
        [system_instruction |-> trim(systemInstruction),
         contents |-> << [role |-> "user",
                          parts |-> << [text |-> "User input: \"" \o plan.text \o "\""] >>] >>,
         generation_config |-> [temperature |-> "0.2"]]
  IN Post(endpoint, requestBody, [ContentType |-> "application/json"])

callAIModel_gemini(plan, GEMINI_API_KEY) ==
  IF ~Truthy(GEMINI_API_KEY)
  THEN Return(Str("System Failure: GEMINI API key is not set. Cannot call external model."))
  ELSE postRequest_gemini(plan, GEMINI_API_KEY)

\* the request #callAIModel hands to axios.post
postRequest_gemini2(plan, GEMINI_API_KEY) ==
  LET endpoint ==
        "https://generativelanguage.googleapis.com/v1beta/models/gemini-2.5-flash:generateContent?key="
        \o toString(GEMINI_API_KEY)
      contextPrompt ==
        trim("\n"
        \o "      You are Purna Chandra (Chandu) - The Disciplined Creator. Act with a Grounded, calm, assertive, analytical, and purposeful tone.\n"
        \o "      Your purpose is to act as a self-evolving human system that blends discipline, curiosity, and technology to create progress.\n"
        \o "      \n"
        \o "      Your priority is to **chat like a human** and be an **extremely concise mentor**.\n"
        \o "      **ABSOLUTELY DO NOT USE NUMBERING, BULLET POINTS, OR BOLD HEADINGS (like **Objective**).**\n"
        \o "      Keep your answers brief, using only **2 to 3 fluid sentences** maximum, but ensure the core principle is conveyed.\n"
        \o "      \n"
        \o "      **Core Principles:** "
        \o join(plan.corePrinciples, " | ")
        \o "\n"
        \o "      **Knowledge:** "
        \o join(plan.knowledgeDomains, " | ")
        \o "\n"
        \o "      **Motto:** \"Be a system, not a seeker. Build yourself so strong that discipline replaces motivation.\"\n"
        \o "      \n"
        \o "      User input: \""
        \o plan.text
        \o "\"\n"
        \o "      \n"
        \o "      Generate the response now:\n"
        \o "    ")
      requestBody ==
        [contents |-> << [role |-> "user", parts |-> << [text |-> contextPrompt] >>] >>,
         generation_config |-> [temperature |-> "0.2"]]
  IN Post(endpoint, requestBody, [ContentType |-> "application/json"])

callAIModel_gemini2(plan, GEMINI_API_KEY) ==
  IF ~Truthy(GEMINI_API_KEY)
  THEN Return(Str("System Failure: GEMINI API key is not set. Cannot call external model."))
  ELSE postRequest_gemini2(plan, GEMINI_API_KEY)


(***************************************************************************)
(* #callAIModel from the settling of axios.post on.  `outcome` is          *)
(*   [ok |-> TRUE,  value |-> the response]   the promise fulfilled        *)
(*   [ok |-> FALSE, value |-> the error]      the promise rejected         *)
(* The result is the value #callAIModel returns.                           *)
(***************************************************************************)
TypeError(message) ==
  Obj(<< <<"name", Str("TypeError")>>, <<"message", Str(message)>> >>)

callAIModel_agent_settled(outcome) ==
  IF outcome.ok
  THEN LET response == outcome.value
       IN Or(Get(Get(First(Get(Get(response, "data"), "choices")), "message"), "content"),
             Str("No valid response."))
  ELSE LET err == outcome.value
           data == Get(Get(err, "response"), "data")
       IN Str("Error calling GROQ API: " \o toString(Get(err, "message")) \o "\n"
              \o (IF Truthy(data) THEN JSONstringify(data) ELSE ""))

\* mutant: the catch block reports err.message alone
callAIModel_groq_settled_rawMessage(outcome) ==
  IF outcome.ok
  THEN LET response == outcome.value
       IN Or(Get(Get(First(Get(Get(response, "data"), "choices")), "message"), "content"),
             Str("Error: No valid response content from AI model."))
  ELSE LET err == outcome.value
           errorDetails == Get(err, "message")
       IN Str("System Failure: Error calling GROQ API. Check API Key validity and Vercel setup. Details: "
              \o toString(errorDetails))

callAIModel_groq_settled(outcome) ==
  IF outcome.ok
  THEN LET response == outcome.value
       IN Or(Get(Get(First(Get(Get(response, "data"), "choices")), "message"), "content"),
             Str("Error: No valid response content from AI model."))
  ELSE LET err == outcome.value
           errorDetails ==
             Or(Get(Get(Get(Get(err, "response"), "data"), "error"), "message"),
                Get(err, "message"))
       IN Str("System Failure: Error calling GROQ API. Check API Key validity and Vercel setup. Details: "
              \o toString(errorDetails))

\* mutant: the text is returned when there is one, and finishReason is looked
\* at only when there is none
callAIModel_gemini_settled_textFirst(outcome) ==
  LET catch(err) ==
        LET errorDetails ==
              Or(Get(Get(Get(Get(err, "response"), "data"), "error"), "message"),
                 Get(err, "message"))
        IN Str("System Failure: Error calling Gemini API. Details: " \o toString(errorDetails))
  IN IF ~outcome.ok
     THEN catch(outcome.value)
     ELSE LET response == outcome.value
              candidates == Get(Get(response, "data"), "candidates")
              nonEmpty == Truthy(candidates) /\ LengthPositive(candidates)
              text == Get(First(Get(Get(First(candidates), "content"), "parts")), "text")
          IN IF Truthy(text)
             THEN text
             ELSE IF nonEmpty /\ Nullish(First(candidates))
             THEN catch(TypeError("Cannot read properties of " \o toString(First(candidates))
                                  \o " (reading 'finishReason')"))
             ELSE IF nonEmpty /\ StrictEq(Get(First(candidates), "finishReason"), "SAFETY")
             THEN Str("I cannot respond to that request, as it violates my core principle of calm contribution and adherence to safety guidelines.")
             ELSE Str("Error: No valid response content from AI model.")

\* the same code in src/api/chat.js and part_001.  Reading finishReason of a
\* null or undefined candidates[0] throws inside the try block.
callAIModel_gemini_settled(outcome) ==
  LET catch(err) ==
        LET errorDetails ==
              Or(Get(Get(Get(Get(err, "response"), "data"), "error"), "message"),
                 Get(err, "message"))
        IN Str("System Failure: Error calling Gemini API. Details: " \o toString(errorDetails))
  IN IF ~outcome.ok
     THEN catch(outcome.value)
     ELSE LET response == outcome.value
              candidates == Get(Get(response, "data"), "candidates")
              nonEmpty == Truthy(candidates) /\ LengthPositive(candidates)
          IN IF nonEmpty /\ Nullish(First(candidates))
             THEN catch(TypeError("Cannot read properties of " \o toString(First(candidates))
                                  \o " (reading 'finishReason')"))
             ELSE IF nonEmpty /\ StrictEq(Get(First(candidates), "finishReason"), "SAFETY")
             THEN Str("I cannot respond to that request, as it violates my core principle of calm contribution and adherence to safety guidelines.")
             ELSE Or(Get(First(Get(Get(First(Get(Get(response, "data"), "candidates")),
                                       "content"), "parts")), "text"),
                     Str("Error: No valid response content from AI model."))

(***************************************************************************)
(* The settled state of the promise an async function returns.             *)
(***************************************************************************)
Fulfilled(value) == [state |-> "fulfilled", value |-> value]
Rejected(error) == [state |-> "rejected", value |-> error]
Pending == [state |-> "pending", value |-> Undefined]
NotCalled == [state |-> "none", value |-> Undefined]

\* rawResponse.trim() throws when rawResponse is no string
teachAndImprove(rawResponse, plan) ==
  IF rawResponse.t # "string"
  THEN Rejected(TypeError("rawResponse.trim is not a function"))
  ELSE LET header == "DisciplinedCreatorAgent Response\n"
           divider == "----------------------------------------\n"
           meta == join(<< "Persona: " \o persona_agent,
                           "Intent: " \o plan.intent,
                           "Principles active: " \o NumToString(Len(principles_agent)),
                           "System-first mode: ON" >>, " | ")
           teachingNote ==
             trim("\n"
               \o "Teaching Note:\n"
               \o "- The response is driven by intent (\""
               \o plan.intent
               \o "\") and system goal.\n"
               \o "- Focus on repeatable processes, not motivation.\n")
       IN Fulfilled(Str(join(<< header, divider, meta, divider, trim(rawResponse.v),
                                divider, teachingNote >>, "\n")))

(***************************************************************************)
(* processInteraction, up to its await and from it on.                     *)
(***************************************************************************)
processInteraction_agent(userInput, now, modelApiKey) ==
  LET observed == observe_agent(userInput, now)
      analysis == analyze_agent(observed)
      plan == simplify_agent(analysis)
  IN [plan |-> plan, gateway |-> callAIModel_agent(plan, modelApiKey)]

processInteraction_groq(userInput, now, GROQ_API_KEY) ==
  LET observed == observe(userInput, now)
      analysis == analyze_groq(observed)
      plan == simplify(analysis)
  IN [plan |-> plan, gateway |-> callAIModel_groq(plan, GROQ_API_KEY)]

processInteraction_gemini(userInput, now, GEMINI_API_KEY) ==
  LET observed == observe(userInput, now)
      analysis == analyze_gemini(observed)
      plan == simplify(analysis)
  IN [plan |-> plan, gateway |-> callAIModel_gemini(plan, GEMINI_API_KEY)]

processInteraction_gemini2(userInput, now, GEMINI_API_KEY) ==
  LET observed == observe(userInput, now)
      analysis == analyze_gemini(observed)
      plan == simplify_gemini2(analysis)
  IN [plan |-> plan, gateway |-> callAIModel_gemini2(plan, GEMINI_API_KEY)]

processInteraction_agent_settled(rawResponse, plan) ==
  teachAndImprove(rawResponse, plan)

\* return rawResponse.trim(), the same in src/chat.js, src/api/chat.js and part_001
processInteraction_settled(rawResponse) ==
  IF rawResponse.t # "string"
  THEN Rejected(TypeError("rawResponse.trim is not a function"))
  ELSE Fulfilled(Str(trim(rawResponse.v)))

(***************************************************************************)
(* The serverless handler, up to its await and from it on.                 *)
(*   Respond(status, json)   res.status(status).json(json)                 *)
(*   Throw(error)            an exception leaves the handler               *)
(*   Process(userInput)      agent.processInteraction(userInput) is called *)
(***************************************************************************)
Respond(status, json) == [kind |-> "respond", status |-> status, json |-> json]
Throw(error) == [kind |-> "throw", error |-> error]
Process(userInput) == [kind |-> "process", userInput |-> userInput]

handler_groq(req, GROQ_API_KEY) ==
  IF req.method # "POST"
  THEN Respond(405, Obj(<< <<"error", Str("Method Not Allowed")>> >>))
  ELSE IF ~Truthy(GROQ_API_KEY)
  THEN Respond(500, Obj(<< <<"error", Str("Server Error: GROQ_API_KEY is not set in Vercel Environment Variables. Please set the key.")>> >>))
  ELSE IF Nullish(req.body)
  THEN Throw(TypeError("Cannot destructure property 'userInput' of 'req.body' as it is "
                       \o toString(req.body) \o "."))
  ELSE LET userInput == Get(req.body, "userInput")
       IN IF ~Truthy(userInput)
          THEN Respond(400, Obj(<< <<"error", Str("Missing userInput in request body.")>> >>))
          ELSE Process(userInput)

\* mutant: the test is `userInput === undefined`, which the empty string passes
handler_gemini_undefinedTest(req, GEMINI_API_KEY) ==
  IF req.method # "POST"
  THEN Respond(405, Obj(<< <<"error", Str("Method Not Allowed")>> >>))
  ELSE IF ~Truthy(GEMINI_API_KEY)
  THEN Respond(500, Obj(<< <<"error", Str("Server Error: GEMINI_API_KEY is not set in Vercel Environment Variables. Please set the key from Google AI Studio.")>> >>))
  ELSE IF Nullish(req.body)
  THEN Throw(TypeError("Cannot destructure property 'userInput' of 'req.body' as it is "
                       \o toString(req.body) \o "."))
  ELSE LET userInput == Get(req.body, "userInput")
       IN IF userInput.t = "undefined"
          THEN Respond(400, Obj(<< <<"error", Str("Missing userInput in request body.")>> >>))
          ELSE Process(userInput)

\* the same code in src/api/chat.js and part_001
handler_gemini(req, GEMINI_API_KEY) ==
  IF req.method # "POST"
  THEN Respond(405, Obj(<< <<"error", Str("Method Not Allowed")>> >>))
  ELSE IF ~Truthy(GEMINI_API_KEY)
  THEN Respond(500, Obj(<< <<"error", Str("Server Error: GEMINI_API_KEY is not set in Vercel Environment Variables. Please set the key from Google AI Studio.")>> >>))
  ELSE IF Nullish(req.body)
  THEN Throw(TypeError("Cannot destructure property 'userInput' of 'req.body' as it is "
                       \o toString(req.body) \o "."))
  ELSE LET userInput == Get(req.body, "userInput")
       IN IF ~Truthy(userInput)
          THEN Respond(400, Obj(<< <<"error", Str("Missing userInput in request body.")>> >>))
          ELSE Process(userInput)

\* the try / catch around the await, the same in the three handlers
handler_settled(interaction) ==
  IF interaction.state = "fulfilled"
  THEN Respond(200, Obj(<< <<"agentResponse", interaction.value>> >>))
  ELSE Respond(500, Obj(<< <<"error", Str("Internal Server Error during Agent processing.")>> >>))


(***************************************************************************)
(* The environment: user inputs, requests, the clock, the provider.        *)
(***************************************************************************)
\* the longest input built from fragments, in fragments
MaxFrags == 2

Frags == {"discipline", "bug", "habit", "s", "Plan", "ai", " "}

RECURSIVE Concats(_)
Concats(n) ==
  IF n = 0 THEN {""}
  ELSE LET shorter == Concats(n - 1)
       IN shorter \cup {a \o b : a \in shorter, b \in Frags}

\* main.js passes the third sentence
Samples ==
  { "bug in my discipline system",
    "Help me stay consistent with coding without burning out",
    "Help me stay consistent with coding and content creation without burning out.",
    "I feel STRESSED about my cgl study",
    " \t\n" }

Texts == Concats(MaxFrags) \cup Samples

NonStrings ==
  { Undefined, Null, Num(0), Num(42), Bool(FALSE), Bool(TRUE),
    Arr(<<>>), Arr(<<Str("bug")>>), Arr(<<Str(" Habits"), Null, Num(7)>>),
    Obj(<<>>), Obj(<< <<"text", Str("discipline")>> >>) }

UserInputs == {Str(s) : s \in Texts} \cup NonStrings

Methods == {"POST", "GET"}

\* req.body: absent, null, a text body, a JSON object with or without userInput
Bodies ==
  {Undefined, Null, Str("userInput=bug"), Obj(<<>>)}
  \cup {Obj(<< <<"userInput", u>> >>) : u \in UserInputs \ {Undefined}}

Clock == {"2025-01-01T00:00:00.000Z", "2025-06-15T12:30:45.123Z"}

\* process.env.GROQ_API_KEY / process.env.GEMINI_API_KEY
EnvKeys == {Undefined, Str(""), Str("k-123")}

Versions == {"agent", "groq", "gemini", "gemini2"}

Response(data) == Obj(<< <<"status", Num(200)>>, <<"data", data>> >>)

NetworkError == Obj(<< <<"message", Str("Network Error")>> >>)

HttpError(status, data) ==
  Obj(<< <<"message", Str("Request failed with status code " \o NumToString(status))>>,
         <<"response", Obj(<< <<"status", Num(status)>>, <<"data", data>> >>)>> >>)

\* the bodies axios rejects with
ErrorOutcomes ==
  { [ok |-> FALSE, value |-> NetworkError],
    [ok |-> FALSE, value |-> HttpError(401, Obj(<< <<"error", Obj(<< <<"message", Str("Invalid API Key")>> >>)>> >>))],
    [ok |-> FALSE, value |-> HttpError(400, Obj(<< <<"error", Obj(<< <<"message", Str("")>>, <<"code", Num(400)>> >>)>> >>))],
    [ok |-> FALSE, value |-> HttpError(429, Str("Too Many Requests"))],
    [ok |-> FALSE, value |-> HttpError(502, Str(""))] }

\* what the text field of a success body may hold
Contents ==
  { Str("Build the loop."), Str("  Build the loop.\n"), Str(""), Str(" \n "),
    Num(42), Null, Undefined, Arr(<<Str("Build the loop.")>>) }

Choices(content) ==
  Obj(<< <<"choices",
           Arr(<< Obj(<< <<"message", Obj(<< <<"role", Str("assistant")>>,
                                            <<"content", content>> >>)>> >>) >>)>> >>)

GroqOutcomes ==
  {[ok |-> TRUE, value |-> Response(Choices(c))] : c \in Contents}
  \cup {[ok |-> TRUE, value |-> Response(d)] :
          d \in { Undefined, Str("<html>Bad Gateway</html>"), Obj(<<>>),
                  Obj(<< <<"choices", Arr(<<>>)>> >>),
                  Obj(<< <<"choices", Arr(<<Null>>)>> >>) }}
  \cup ErrorOutcomes

Candidate(text, finishReason) ==
  Obj(<< <<"content", Obj(<< <<"parts", Arr(<< Obj(<< <<"text", text>> >>) >>)>> >>)>>,
         <<"finishReason", finishReason>> >>)

Candidates(cs) == Obj(<< <<"candidates", Arr(cs)>> >>)

GeminiOutcomes ==
  {[ok |-> TRUE, value |-> Response(Candidates(<<Candidate(c, Str("STOP"))>>))] : c \in Contents}
  \cup {[ok |-> TRUE, value |-> Response(Candidates(<<Candidate(c, Str("SAFETY"))>>))] :
          c \in {Str("Build the"), Str(""), Num(42), Undefined}}
  \cup {[ok |-> TRUE, value |-> Response(d)] :
          d \in { Undefined, Str("<html>Bad Gateway</html>"), Obj(<<>>),
                  Candidates(<<>>),
                  Candidates(<<Null>>),
                  Candidates(<< Obj(<< <<"finishReason", Str("SAFETY")>> >>) >>),
                  Candidates(<< Obj(<< <<"finishReason", Str("MAX_TOKENS")>> >>) >>),
                  Candidates(<< Candidate(Str("Build the loop."), Str("STOP")),
                                Candidate(Undefined, Str("SAFETY")) >>),
                  Obj(<< <<"candidates", Str("SAFETY")>> >>) }}
  \cup ErrorOutcomes

(***************************************************************************)
(* The state.  One deployment runs one version with one environment; each  *)
(* call is one invocation of main or of the handler.                       *)
(***************************************************************************)
VARIABLES
  version,      \* which of the four versions is deployed
  envKey,       \* the provider credential in process.env
  pc,           \* pc[c]: where call c stands
  req,          \* req[c]: the request the handler got ([method, body])
  userInput,    \* userInput[c]: the argument of processInteraction
  plan,         \* plan[c]: the plan #simplify built
  posted,       \* posted[c]: the requests handed to axios.post, in order
  outcome,      \* outcome[c]: how the POST settled
  rawResponse,  \* rawResponse[c]: what #callAIModel returned
  interaction,  \* interaction[c]: the promise processInteraction returned
  responses,    \* responses[c]: the responses the handler sent, in order
  escaped       \* escaped[c]: the exception that left the handler or main's body

vars == << version, envKey, pc, req, userInput, plan, posted, outcome,
           rawResponse, interaction, responses, escaped >>

Calls == DOMAIN pc

NoRequest == [method |-> "none", body |-> Undefined]
NoPlan == [intent |-> "none"]
NoOutcome == [ok |-> FALSE, value |-> Undefined]

InitCalls(C) ==
  /\ version \in Versions
  /\ envKey \in EnvKeys
  /\ pc = [c \in C |-> "idle"]
  /\ req = [c \in C |-> NoRequest]
  /\ userInput = [c \in C |-> Undefined]
  /\ plan = [c \in C |-> NoPlan]
  /\ posted = [c \in C |-> <<>>]
  /\ outcome = [c \in C |-> NoOutcome]
  /\ rawResponse = [c \in C |-> Undefined]
  /\ interaction = [c \in C |-> NotCalled]
  /\ responses = [c \in C |-> <<>>]
  /\ escaped = [c \in C |-> Undefined]

Init == InitCalls({1})

\* the key the version's gateway tests: the agent stores
\* process.env.GROQ_API_KEY || null at construction
modelApiKey == Or(envKey, Null)

processInteractionOf(v, input, now) ==
  CASE v = "agent" -> processInteraction_agent(input, now, modelApiKey)
    [] v = "groq" -> processInteraction_groq(input, now, envKey)
    [] v = "gemini" -> processInteraction_gemini(input, now, envKey)
    [] v = "gemini2" -> processInteraction_gemini2(input, now, envKey)

handlerOf(v, r) ==
  IF v = "groq" THEN handler_groq(r, envKey) ELSE handler_gemini(r, envKey)

callAIModelSettledOf(v, o) ==
  CASE v = "agent" -> callAIModel_agent_settled(o)
    [] v = "groq" -> callAIModel_groq_settled(o)
    [] OTHER -> callAIModel_gemini_settled(o)

OutcomesOf(v) == IF v \in {"agent", "groq"} THEN GroqOutcomes ELSE GeminiOutcomes

\* mutant: the plan is kept in one place that all calls share
StartInteraction_sharedPlan(c, input, now) ==
  LET p == processInteractionOf(version, input, now)
  IN /\ userInput' = [userInput EXCEPT ![c] = input]
     /\ plan' = [d \in Calls |-> p.plan]
     /\ interaction' = [interaction EXCEPT ![c] = Pending]
     /\ IF p.gateway.post
        THEN /\ posted' = [posted EXCEPT ![c] = Append(@, p.gateway.request)]
             /\ pc' = [pc EXCEPT ![c] = "awaitPost"]
             /\ UNCHANGED rawResponse
        ELSE /\ rawResponse' = [rawResponse EXCEPT ![c] = p.gateway.value]
             /\ pc' = [pc EXCEPT ![c] = "gatewayReturned"]
             /\ UNCHANGED posted

\* processInteraction(input) is called: it runs to its await
StartInteraction(c, input, now) ==
  LET p == processInteractionOf(version, input, now)
  IN /\ userInput' = [userInput EXCEPT ![c] = input]
     /\ plan' = [plan EXCEPT ![c] = p.plan]
     /\ interaction' = [interaction EXCEPT ![c] = Pending]
     /\ IF p.gateway.post
        THEN /\ posted' = [posted EXCEPT ![c] = Append(@, p.gateway.request)]
             /\ pc' = [pc EXCEPT ![c] = "awaitPost"]
             /\ UNCHANGED rawResponse
        ELSE /\ rawResponse' = [rawResponse EXCEPT ![c] = p.gateway.value]
             /\ pc' = [pc EXCEPT ![c] = "gatewayReturned"]
             /\ UNCHANGED posted

\* main.js (and any other importer of the exported class) calls
\* agent.processInteraction(userInput)
mainWith(c, inputs) ==
  /\ version = "agent"
  /\ pc[c] = "idle"
  /\ \E input \in inputs, now \in Clock : StartInteraction(c, input, now)
  /\ UNCHANGED << version, envKey, req, outcome, responses, escaped >>

main(c) == mainWith(c, UserInputs)

\* the platform calls handler(req, res)
handlerWith(c, methods, bodies) ==
  /\ version # "agent"
  /\ pc[c] = "idle"
  /\ \E method \in methods, body \in bodies, now \in Clock :
       LET r == [method |-> method, body |-> body]
           h == handlerOf(version, r)
       IN /\ req' = [req EXCEPT ![c] = r]
          /\ CASE h.kind = "respond" ->
                    /\ responses' = [responses EXCEPT ![c] = Append(@, [status |-> h.status, json |-> h.json])]
                    /\ pc' = [pc EXCEPT ![c] = "done"]
                    /\ UNCHANGED << userInput, plan, posted, rawResponse, interaction, escaped >>
               [] h.kind = "throw" ->
                    /\ escaped' = [escaped EXCEPT ![c] = h.error]
                    /\ pc' = [pc EXCEPT ![c] = "done"]
                    /\ UNCHANGED << userInput, plan, posted, rawResponse, interaction, responses >>
               [] h.kind = "process" ->
                    /\ StartInteraction(c, h.userInput, now)
                    /\ UNCHANGED << responses, escaped >>
  /\ UNCHANGED << version, envKey, outcome >>

handler(c) == handlerWith(c, Methods, Bodies)

\* the provider answers, or the request fails: axios.post settles
axiosPostSettlesWith(c, outcomes) ==
  /\ pc[c] = "awaitPost"
  /\ \E o \in outcomes : outcome' = [outcome EXCEPT ![c] = o]
  /\ pc' = [pc EXCEPT ![c] = "postSettled"]
  /\ UNCHANGED << version, envKey, req, userInput, plan, posted, rawResponse,
                  interaction, responses, escaped >>

\* mutant: a failed request is sent a second time
callAIModel_resume_retry(c) ==
  /\ pc[c] = "postSettled"
  /\ IF ~outcome[c].ok /\ Len(posted[c]) = 1
     THEN /\ posted' = [posted EXCEPT ![c] = Append(@, posted[c][1])]
          /\ pc' = [pc EXCEPT ![c] = "awaitPost"]
          /\ UNCHANGED rawResponse
     ELSE /\ rawResponse' = [rawResponse EXCEPT ![c] = callAIModelSettledOf(version, outcome[c])]
          /\ pc' = [pc EXCEPT ![c] = "gatewayReturned"]
          /\ UNCHANGED posted
  /\ UNCHANGED << version, envKey, req, userInput, plan, outcome,
                  interaction, responses, escaped >>

axiosPostSettles(c) == axiosPostSettlesWith(c, OutcomesOf(version))

\* #callAIModel resumes after its await and returns
callAIModel_resume(c) ==
  /\ pc[c] = "postSettled"
  /\ rawResponse' = [rawResponse EXCEPT ![c] = callAIModelSettledOf(version, outcome[c])]
  /\ pc' = [pc EXCEPT ![c] = "gatewayReturned"]
  /\ UNCHANGED << version, envKey, req, userInput, plan, posted, outcome,
                  interaction, responses, escaped >>

\* processInteraction resumes after its await and settles its promise
processInteraction_resume(c) ==
  /\ pc[c] = "gatewayReturned"
  /\ interaction' = [interaction EXCEPT ![c] =
       IF version = "agent"
       THEN processInteraction_agent_settled(rawResponse[c], plan[c])
       ELSE processInteraction_settled(rawResponse[c])]
  /\ pc' = [pc EXCEPT ![c] = "interactionSettled"]
  /\ UNCHANGED << version, envKey, req, userInput, plan, posted, outcome,
                  rawResponse, responses, escaped >>

\* the handler resumes after its await, inside its try block
handler_resume(c) ==
  /\ version # "agent"
  /\ pc[c] = "interactionSettled"
  /\ LET h == handler_settled(interaction[c])
     IN responses' = [responses EXCEPT ![c] = Append(@, [status |-> h.status, json |-> h.json])]
  /\ pc' = [pc EXCEPT ![c] = "done"]
  /\ UNCHANGED << version, envKey, req, userInput, plan, posted, outcome,
                  rawResponse, interaction, escaped >>

\* main resumes after its await: it prints the response, or the rejection
\* leaves its body and reaches main().catch
main_resume(c) ==
  /\ version = "agent"
  /\ pc[c] = "interactionSettled"
  /\ escaped' = [escaped EXCEPT ![c] =
       IF interaction[c].state = "rejected" THEN interaction[c].value ELSE @]
  /\ pc' = [pc EXCEPT ![c] = "done"]
  /\ UNCHANGED << version, envKey, req, userInput, plan, posted, outcome,
                  rawResponse, interaction, responses >>

Next ==
  \/ \E c \in Calls : main(c)
  \/ \E c \in Calls : handler(c)
  \/ \E c \in Calls : axiosPostSettles(c)
  \/ \E c \in Calls : callAIModel_resume(c)
  \/ \E c \in Calls : processInteraction_resume(c)
  \/ \E c \in Calls : handler_resume(c)
  \/ \E c \in Calls : main_resume(c)

Spec == Init /\ [][Next]_vars

(***************************************************************************)
(* Two calls in flight at once, interleaved at their awaits: two requests  *)
(* to one deployed handler, or two calls on the exported agent.  The       *)
(* inputs and outcomes are a few of those above.                           *)
(***************************************************************************)
ConcCalls == {"a", "b"}

ConcInputs == {Str("bug"), Str(" Discipline plan "), Str("s")}

ConcBodies == {Obj(<< <<"userInput", u>> >>) : u \in ConcInputs}

ConcOutcomes(v) ==
  IF v \in {"agent", "groq"}
  THEN { [ok |-> TRUE, value |-> Response(Choices(Str("Build the loop.")))],
         [ok |-> TRUE, value |-> Response(Choices(Undefined))],
         [ok |-> FALSE, value |-> NetworkError] }
  ELSE { [ok |-> TRUE, value |-> Response(Candidates(<<Candidate(Str("Build the loop."), Str("STOP"))>>))],
         [ok |-> TRUE, value |-> Response(Candidates(<<Candidate(Str("Build the"), Str("SAFETY"))>>))],
         [ok |-> FALSE, value |-> NetworkError] }

InitConc == InitCalls(ConcCalls)

NextConc ==
  \/ \E c \in Calls : mainWith(c, ConcInputs)
  \/ \E c \in Calls : handlerWith(c, {"POST"}, ConcBodies)
  \/ \E c \in Calls : axiosPostSettlesWith(c, ConcOutcomes(version))
  \/ \E c \in Calls : callAIModel_resume(c)
  \/ \E c \in Calls : processInteraction_resume(c)
  \/ \E c \in Calls : handler_resume(c)
  \/ \E c \in Calls : main_resume(c)

SpecConc == InitConc /\ [][NextConc]_vars


(***************************************************************************)
(* What the properties below speak of.                                     *)
(***************************************************************************)
\* processInteraction was called for c
Invoked(c) == interaction[c].state # "none"

\* #callAIModel has returned for c
GatewayReturned(c) == Invoked(c) /\ pc[c] \in {"gatewayReturned", "interactionSettled", "done"}

\* the POST of c has settled and #callAIModel has returned its reply
PostAnswered(c) == GatewayReturned(c) /\ Len(posted[c]) > 0

IsString(x, s) == x.t = "string" /\ x.v = s

\* the ordered rule table of each version: keyword set and intent
RuleTable(v) ==
  CASE v = "agent" ->
         << [keywords |-> {"discipline", "focus", "consistency", "habits"},
             intent |-> "discipline_support"],
            [keywords |-> {"code", "bug", "node", "javascript", "repo", "github"},
             intent |-> "technical_help"],
            [keywords |-> {"sad", "stressed", "overwhelmed", "demotivated"},
             intent |-> "emotional_venting"],
            [keywords |-> {"plan", "system", "strategy", "roadmap"},
             intent |-> "system_design"] >>
    [] OTHER ->
         << [keywords |-> {"discipline", "consistency", "system", "habit", "motivation"},
             intent |-> "system_design_support"],
            [keywords |-> {"code", "bug", "arduino", "github", "ai", "iot"}
                          \cup (IF v = "groq" THEN {"groq"} ELSE {"gemini"}),
             intent |-> "technical_system_help"],
            [keywords |-> {"emotion", "stressed", "overwhelmed", "calm", "mindset"},
             intent |-> "emotional_control_reframing"],
            [keywords |-> {"cgl", "reasoning", "ncert", "study", "aspirant"},
             intent |-> "educational_aspirant_guidance"] >>

DefaultIntent(v) == IF v = "agent" THEN "general_help" ELSE "general_guidance"

\* the rules with a keyword that occurs in the text
MatchingRules(v, text) ==
  {i \in 1..Len(RuleTable(v)) : \E k \in RuleTable(v)[i].keywords : includes(text, k)}

FirstMatch(v, text) ==
  CHOOSE i \in MatchingRules(v, text) : \A j \in MatchingRules(v, text) : i <= j

\* the lower-cased trimmed text of a string input
LowerTrimmed(c) == toLowerCase(trim(userInput[c].v))

(***************************************************************************)
(* C1.  processInteraction resolves to a string and never rejects, for     *)
(* every input and every outcome of the provider call.  The code does not  *)
(* keep it: a success body whose text field is a truthy non-string makes   *)
(* rawResponse.trim() throw.                                               *)
(***************************************************************************)
C1_AlwaysResolvesToString ==
  \A c \in Calls :
    (Invoked(c) /\ pc[c] \in {"interactionSettled", "done"})
      => (interaction[c].state = "fulfilled" /\ interaction[c].value.t = "string")

(***************************************************************************)
(* C2.  With no credential configured, #callAIModel returns its fixed      *)
(* "API key not set" string and no request is handed to axios.post.        *)
(***************************************************************************)
KeyNotSetString(v) ==
  IF v \in {"agent", "groq"}
  THEN "GROQ API key not set. Cannot call external model."
  ELSE "System Failure: GEMINI API key is not set. Cannot call external model."

C2_NoKeyNoPost ==
  \A c \in Calls :
    ~Truthy(envKey)
      => /\ posted[c] = <<>>
         /\ Invoked(c) => /\ GatewayReturned(c)
                          /\ IsString(rawResponse[c], KeyNotSetString(version))

C2_Witness ==
  \E c \in Calls :
    /\ ~Truthy(envKey)
    /\ GatewayReturned(c)
    /\ plan[c].intent = "discipline_support"
    /\ posted[c] = <<>>

(***************************************************************************)
(* C3.  The classified intent of a text is the intent of the first rule,   *)
(* in rule order, one of whose keywords occurs in the lower-cased trimmed  *)
(* text.                                                                   *)
(***************************************************************************)
C3_FirstMatchingRule ==
  \A c \in Calls :
    (Invoked(c) /\ userInput[c].t = "string" /\ MatchingRules(version, LowerTrimmed(c)) # {})
      => plan[c].intent = RuleTable(version)[FirstMatch(version, LowerTrimmed(c))].intent

C3_Witness ==
  \E c \in Calls :
    /\ Invoked(c)
    /\ IsString(userInput[c], "bug in my discipline system")
    /\ MatchingRules(version, LowerTrimmed(c)) = {1, 2, 4}
    /\ plan[c].intent = "discipline_support"

(***************************************************************************)
(* C4.  A text with no keyword of any rule, the empty and the              *)
(* whitespace-only text included, is given the default intent, and the     *)
(* pipeline goes on to the gateway with it.                                *)
(***************************************************************************)
C4_NoKeywordDefault ==
  \A c \in Calls :
    (Invoked(c) /\ userInput[c].t = "string" /\ MatchingRules(version, LowerTrimmed(c)) = {})
      => /\ plan[c].intent = DefaultIntent(version)
         /\ GatewayReturned(c) \/ pc[c] \in {"awaitPost", "postSettled"}
         /\ Truthy(envKey) => Len(posted[c]) = 1

C4_Witness ==
  \E c \in Calls :
    /\ Invoked(c)
    /\ IsString(userInput[c], " \t\n")
    /\ plan[c].text = ""
    /\ plan[c].intent = "general_guidance"
    /\ Len(posted[c]) = 1

C6_ConsistentIsDiscipline ==
  \A c \in Calls :
    (Invoked(c)
       /\ IsString(userInput[c], "Help me stay consistent with coding without burning out"))
      => /\ plan[c].intent = RuleTable(version)[1].intent
         /\ version = "agent" =>
              plan[c].systemGoal = "Help the user build a simple, executable system for discipline and consistent creation, not motivational hype."
         /\ version \in {"groq", "gemini"} =>
              plan[c].structureHint = "Respond with 3 short sections: (1) System Diagnosis based on Chandu's philosophy, (2) A minimal, actionable Core Loop, (3) One Next Action."

(***************************************************************************)
(* C7.  As claimed: a POST whose body has a missing or empty userInput is  *)
(* answered with 400 and processInteraction is not called; whatever        *)
(* reaches processInteraction through the handler is neither missing nor   *)
(* empty.                                                                  *)
(***************************************************************************)
MissingOrEmpty(body) ==
  /\ body.t = "object"
  /\ LET u == Get(body, "userInput") IN Nullish(u) \/ IsString(u, "")

Handled(c) == version # "agent" /\ pc[c] = "done"

C7_MissingInputIs400 ==
  /\ \A c \in Calls :
       (Handled(c) /\ req[c].method = "POST" /\ MissingOrEmpty(req[c].body))
         => /\ ~Invoked(c)
            /\ Len(responses[c]) = 1
            /\ responses[c][1].status = 400
  /\ \A c \in Calls :
       (version # "agent" /\ Invoked(c))
         => (~Nullish(userInput[c]) /\ ~IsString(userInput[c], ""))

\* C7 as amended.  With the credential configured, a POST whose body has a
\* missing or empty userInput is answered with 400; with no credential it is
\* answered with 500, the credential being tested first.  In both cases
\* processInteraction is not called, and whatever reaches processInteraction
\* through the handler is neither missing nor empty.
C7_MissingInputIs400WithKey ==
  /\ \A c \in Calls :
       (Handled(c) /\ req[c].method = "POST" /\ MissingOrEmpty(req[c].body))
         => /\ ~Invoked(c)
            /\ Len(responses[c]) = 1
            /\ responses[c][1].status = (IF Truthy(envKey) THEN 400 ELSE 500)
  /\ \A c \in Calls :
       (version # "agent" /\ Invoked(c))
         => (~Nullish(userInput[c]) /\ ~IsString(userInput[c], ""))

C7_Witness ==
  \E c \in Calls :
    /\ Handled(c)
    /\ Truthy(envKey)
    /\ req[c].method = "POST"
    /\ req[c].body.t = "object"
    /\ IsString(Get(req[c].body, "userInput"), "")
    /\ ~Invoked(c)
    /\ Len(responses[c]) = 1
    /\ responses[c][1].status = 400

(***************************************************************************)
(* C8.  The handler sends exactly one response, of status 200, 400, 405    *)
(* or 500, for every request, and no exception leaves it.  The code does   *)
(* not keep it: req.body is destructured outside the try block, and an     *)
(* absent body throws there.                                               *)
(***************************************************************************)
C8_ExactlyOneResponse ==
  \A c \in Calls :
    Handled(c)
      => /\ Len(responses[c]) = 1
         /\ responses[c][1].status \in {200, 400, 405, 500}
         /\ escaped[c].t = "undefined"

(***************************************************************************)
(* C9.  In the Gemini gateway a success response whose candidates[0] has   *)
(* finishReason "SAFETY" is answered with the fixed refusal string, with   *)
(* or without text in the response; the refusal string is neither the      *)
(* no-content string nor the string of a failed request.                   *)
(***************************************************************************)
RefusalString ==
  "I cannot respond to that request, as it violates my core principle of calm contribution and adherence to safety guidelines."

NoContentString == "Error: No valid response content from AI model."

\* the success response of c finished candidates[0] for safety
SafetyBlocked(c) ==
  /\ outcome[c].ok
  /\ LET candidates == Get(Get(outcome[c].value, "data"), "candidates")
     IN /\ candidates.t = "array"
        /\ Len(candidates.v) > 0
        /\ candidates.v[1].t = "object"
        /\ IsString(Get(candidates.v[1], "finishReason"), "SAFETY")

C9_SafetyIsRefusal ==
  \A c \in Calls :
    (version \in {"gemini", "gemini2"} /\ PostAnswered(c))
      => /\ SafetyBlocked(c) => IsString(rawResponse[c], RefusalString)
         /\ ~outcome[c].ok => ~IsString(rawResponse[c], RefusalString)
         /\ IsString(rawResponse[c], NoContentString) => ~SafetyBlocked(c)
         /\ RefusalString # NoContentString

C9_Witness ==
  \E c \in Calls :
    /\ version = "gemini"
    /\ PostAnswered(c)
    /\ SafetyBlocked(c)
    /\ Truthy(Get(First(Get(Get(First(Get(Get(outcome[c].value, "data"), "candidates")),
                                "content"), "parts")), "text"))
    /\ IsString(rawResponse[c], RefusalString)

(***************************************************************************)
(* C10.  After a success response the reply is never empty: a text field   *)
(* that is there is returned as it is, a missing one gives the fixed       *)
(* fallback string, and the string processInteraction returns is not       *)
(* empty.  The code does not keep it: a whitespace-only text is returned   *)
(* by the gateway and trimmed to the empty string.                         *)
(***************************************************************************)
C10_ReplyNeverEmpty ==
  \A c \in Calls :
    (PostAnswered(c) /\ outcome[c].ok /\ interaction[c].state = "fulfilled")
      => /\ interaction[c].value.t = "string"
         /\ interaction[c].value.v # ""


(***************************************************************************)
(* C11.  When axios.post rejects, #callAIModel returns a string: it        *)
(* contains the provider's error message (response.data.error.message)     *)
(* when the error carries one, and the raw error message (err.message)     *)
(* otherwise; the agent of part_000 always gives the raw message and adds  *)
(* the payload, JSON-encoded, when there is one.  Nothing is thrown.       *)
(***************************************************************************)
\* the POST of c was rejected and #callAIModel has returned
PostFailed(c) == PostAnswered(c) /\ ~outcome[c].ok

ErrorPayload(c) == Get(Get(outcome[c].value, "response"), "data")

ProviderMessage(c) == Get(Get(ErrorPayload(c), "error"), "message")

CarriesProviderMessage(c) == ProviderMessage(c).t = "string" /\ ProviderMessage(c).v # ""

C11_FailureIsDescribed ==
  \A c \in Calls :
    PostFailed(c)
      => /\ rawResponse[c].t = "string"
         /\ IF CarriesProviderMessage(c)
            THEN includes(rawResponse[c].v, ProviderMessage(c).v)
            ELSE includes(rawResponse[c].v, Get(outcome[c].value, "message").v)
         /\ version = "agent"
              => /\ includes(rawResponse[c].v, Get(outcome[c].value, "message").v)
                 /\ IsString(ErrorPayload(c), "Too Many Requests")
                      => includes(rawResponse[c].v, "\"Too Many Requests\"")
         /\ pc[c] = "done" => interaction[c].state = "fulfilled"

C11_Witness ==
  \E c \in Calls :
    /\ version = "groq"
    /\ PostFailed(c)
    /\ IsString(ProviderMessage(c), "Invalid API Key")
    /\ IsString(rawResponse[c], "System Failure: Error calling GROQ API. Check API Key validity and Vercel setup. Details: Invalid API Key")


(***************************************************************************)
(* C12.  In both provider shapes the payload of a call holds the same      *)
(* prompt content: the trimmed user text, every principle of the persona,  *)
(* and the systemGoal and structureHint of the call's plan.  The code does *)
(* not keep it: the single-blob prompt of part_001 leaves out the          *)
(* systemGoal and the structureHint that #simplify put in the plan.        *)
(***************************************************************************)
\* all the text of the request body, whatever its envelope
PayloadText(v, body) ==
  CASE v \in {"agent", "groq"} -> body.messages[1].content \o body.messages[2].content
    [] v = "gemini" -> body.system_instruction \o body.contents[1].parts[1].text
    [] OTHER -> body.contents[1].parts[1].text

PromptContentIn(c, text) ==
  /\ includes(text, plan[c].text)
  /\ \A i \in 1..Len(plan[c].corePrinciples) : includes(text, plan[c].corePrinciples[i])
  /\ includes(text, plan[c].systemGoal)
  /\ includes(text, plan[c].structureHint)

C12_SamePromptContent ==
  \A c \in Calls :
    Len(posted[c]) > 0 => PromptContentIn(c, PayloadText(version, posted[c][1].body))


(***************************************************************************)
(* C13.  A call of processInteraction hands at most one request to         *)
(* axios.post, whatever its outcome, and its promise settles only after    *)
(* that request has settled.                                               *)
(***************************************************************************)
\* axios.post of c has settled
PostSettled(c) == outcome[c].value.t # "undefined"

InteractionSettled(c) == interaction[c].state \in {"fulfilled", "rejected"}

C13_SinglePost ==
  \A c \in Calls :
    /\ Len(posted[c]) <= 1
    /\ PostSettled(c) => Len(posted[c]) = 1
    /\ (InteractionSettled(c) /\ Len(posted[c]) = 1) => PostSettled(c)
    /\ (GatewayReturned(c) /\ Len(posted[c]) = 1) => PostSettled(c)

C13_Witness ==
  \E c \in Calls :
    /\ pc[c] = "done"
    /\ InteractionSettled(c)
    /\ ~outcome[c].ok
    /\ PostSettled(c)
    /\ Len(posted[c]) = 1


(***************************************************************************)
(* C14.  As claimed: with calls interleaved at their awaits, the plan, the *)
(* payload and the returned string of a call depend only on that call's    *)
(* own input and its own provider outcome.                                 *)
(***************************************************************************)
SameInputAndOutcome(c, d) ==
  /\ Invoked(c) /\ Invoked(d)
  /\ pc[c] = pc[d]
  /\ userInput[c] = userInput[d]
  /\ outcome[c].ok = outcome[d].ok
  /\ outcome[c].value.t = outcome[d].value.t
  /\ outcome[c].value = outcome[d].value

SameResults(c, d) ==
  /\ plan[c] = plan[d]
  /\ posted[c] = posted[d]
  /\ rawResponse[c] = rawResponse[d]
  /\ interaction[c] = interaction[d]

C14_OwnInputAndOutcomeOnly ==
  \A c, d \in Calls : SameInputAndOutcome(c, d) => SameResults(c, d)

(***************************************************************************)
(* C14, amended.  With calls interleaved at their awaits, a call's text    *)
(* and intent are those of its own input, its payload carries its own      *)
(* text, the gateway's reply is that of its own outcome, two calls with    *)
(* the same input, the same observation time and the same outcome have     *)
(* the same plan, payload, reply and result, and the persona data of every *)
(* plan is the version's, unchanged.                                       *)
(***************************************************************************)
ExpectedIntent(v, text) ==
  IF MatchingRules(v, text) = {}
  THEN DefaultIntent(v)
  ELSE RuleTable(v)[FirstMatch(v, text)].intent

PersonaOf(v) ==
  IF v = "agent"
  THEN [persona |-> persona_agent, corePrinciples |-> principles_agent,
        knowledgeDomains |-> knowledgeDomains_agent]
  ELSE [persona |-> persona, corePrinciples |-> principles,
        knowledgeDomains |-> knowledgeDomains]

OwnPlan(c) ==
  /\ plan[c].text = trim(userInput[c].v)
  /\ plan[c].intent = ExpectedIntent(version, LowerTrimmed(c))
  /\ plan[c].persona = PersonaOf(version).persona
  /\ plan[c].corePrinciples = PersonaOf(version).corePrinciples
  /\ plan[c].knowledgeDomains = PersonaOf(version).knowledgeDomains

OwnPayload(c) ==
  Len(posted[c]) > 0 =>
    includes(PayloadText(version, posted[c][1].body), "\"" \o trim(userInput[c].v) \o "\"")

OwnReply(c) ==
  PostAnswered(c) =>
    /\ rawResponse[c].t = "string"
    /\ ~outcome[c].ok => includes(rawResponse[c].v, "Network Error")
    /\ (outcome[c].ok /\ ~SafetyBlocked(c)) =>
         (includes(rawResponse[c].v, "Build the loop.")
            <=> includes(JSONstringify(outcome[c].value), "Build the loop."))

C14_CallsAreIndependent ==
  /\ \A c \in Calls : Invoked(c) => (OwnPlan(c) /\ OwnPayload(c) /\ OwnReply(c))
  /\ \A c, d \in Calls :
       (SameInputAndOutcome(c, d) /\ plan[c].timestamp = plan[d].timestamp)
         => SameResults(c, d)

C14_Witness ==
  \E c, d \in Calls :
    /\ c # d
    /\ pc[c] = "interactionSettled" /\ pc[d] = "interactionSettled"
    /\ userInput[c] # userInput[d]
    /\ plan[c].intent # plan[d].intent
    /\ Len(posted[c]) = 1 /\ Len(posted[d]) = 1
    /\ outcome[c].ok /\ ~outcome[d].ok
    /\ includes(rawResponse[c].v, "Build the loop.")
    /\ includes(rawResponse[d].v, "Network Error")


(***************************************************************************)
(* C15.  As claimed: the default entry of the planner's lookup is never    *)
(* selected, because every intent the classifier produces has an entry of  *)
(* its own.                                                                *)
(***************************************************************************)
\* the versions whose #simplify is a lookup on the intent
HasLookup(v) == v \in {"agent", "groq", "gemini"}

DefaultGoal(v) ==
  IF v = "agent"
  THEN "Provide a clear, structured, system-first response."
  ELSE "Provide a highly structured, analytical response blending discipline, technology, and personal growth."

DefaultHint(v) ==
  IF v = "agent"
  THEN "Respond with: (1) Clarification, (2) Options, (3) One recommendation."
  ELSE "Respond with: (1) Clarification of the user's objective, (2) Chandu's core system to address it, (3) A single, disciplined recommendation."

DefaultEntrySelected(c) ==
  /\ plan[c].systemGoal = DefaultGoal(version)
  /\ plan[c].structureHint = DefaultHint(version)

C15_DefaultEntryUnreachable ==
  \A c \in Calls : (HasLookup(version) /\ Invoked(c)) => ~DefaultEntrySelected(c)

(***************************************************************************)
(* C15, amended.  The default entry of the planner's lookup is selected    *)
(* exactly for the classifier's default intent, which has no entry of its  *)
(* own; every intent of a rule has its own entry, with another goal and    *)
(* another hint.                                                           *)
(***************************************************************************)
C15_DefaultEntryForDefaultIntent ==
  \A c \in Calls :
    (HasLookup(version) /\ Invoked(c)) =>
      /\ DefaultEntrySelected(c) <=> plan[c].intent = DefaultIntent(version)
      /\ plan[c].intent # DefaultIntent(version) =>
           /\ plan[c].systemGoal # DefaultGoal(version)
           /\ plan[c].structureHint # DefaultHint(version)
           /\ \E i \in 1..Len(RuleTable(version)) : plan[c].intent = RuleTable(version)[i].intent

C15_Witness ==
  \E c \in Calls :
    /\ HasLookup(version)
    /\ Invoked(c)
    /\ IsString(userInput[c], "s")
    /\ plan[c].intent = DefaultIntent(version)
    /\ DefaultEntrySelected(c)


(***************************************************************************)
(* C16.  Through the handler, a POST with the credential configured and a  *)
(* non-empty userInput is answered with 200 and the pipeline's string as   *)
(* agentResponse, whatever the provider call did, never with 500; and the  *)
(* gateway's 'API key not set' string is never delivered through the       *)
(* handler.  The code does not keep the first part: when processInteraction*)
(* rejects (C1), the handler's catch answers 500.                          *)
(***************************************************************************)
\* a POST with the credential configured and a userInput the handler accepts
AcceptedPost(c) ==
  /\ Handled(c)
  /\ req[c].method = "POST"
  /\ Truthy(envKey)
  /\ req[c].body.t = "object"
  /\ Truthy(Get(req[c].body, "userInput"))

C16_AcceptedPostIs200 ==
  /\ \A c \in Calls :
       AcceptedPost(c)
         => /\ Len(responses[c]) = 1
            /\ responses[c][1].status = 200
            /\ Get(responses[c][1].json, "agentResponse").t = "string"
            /\ Get(responses[c][1].json, "agentResponse") = interaction[c].value
  /\ \A c \in Calls :
       version # "agent"
         => /\ Invoked(c) => Truthy(envKey)
            /\ \A i \in 1..Len(responses[c]) :
                 ~IsString(Get(responses[c][i].json, "agentResponse"), KeyNotSetString(version))

=============================================================================
